---- MODULE Spec2Model ----
(***************************************************************************)
(* Console blackjack: the round engine of src/blackjack.py (Card, Hand,    *)
(* Deck, Game) as a state machine.  One round is the sequential program    *)
(* Game.begin_game: shuffle, deal (with the dealer-21 redeal), the player  *)
(* turns (actionPrompt per hand, with split insertion), the dealer's       *)
(* drawing loop and the settlement loop.  Every loop iteration and every   *)
(* wait on the decision source is one step; pc is the program position.    *)
(*                                                                         *)
(* Money is counted in whole currency units.  Bets are multiples of        *)
(* DEFAULT_INCREMENTS (50), so bet * 2.5 is the integer (bet * 5) \div 2.  *)
(***************************************************************************)
EXTENDS Integers, Sequences, FiniteSets, TLC, Bags

VARIABLES
    deck,         \* Game.deck.deck : the shoe, last element is the top
    hands,        \* Game.hands     : sequence of Hand records
    dealer,       \* Game.dealer    : Hand record
    total_money,  \* Game.total_money
    buy_in,       \* the total_money argument the Game was constructed with
    pc,           \* position in begin_game / deal / play_players / play_dealer
    i,            \* index of the hand a loop is at (1-based)
    user_input,   \* actionPrompt's user_input: the token input() returned last
    num_hands,    \* Game.num_hands : hands_to_play as given to the constructor
    dealer_stand_threshold,  \* config.DEALER_STAND_THRESHOLD as configured
    ret,          \* the last call made on a Deck alone: operation, argument, result
    legacy        \* the engine of the script Blackjack.py, run beside the module's

vars == <<deck, hands, dealer, total_money, buy_in, pc, i, user_input,
          num_hands, dealer_stand_threshold, ret, legacy>>

\* what no step of a round assigns
roundFixed == <<num_hands, dealer_stand_threshold, ret, legacy>>

---------------------------------------------------------------------------
(* Bounds of the model *)

\* hands_to_play ranges over 1..MaxHands
MaxHands == 2
\* the Game is built with NumDecks decks
NumDecks == 1
\* a shuffle is any order whose TopLen topmost cards have ranks in RankPool
TopLen == 5
\* longest card list a stand-alone Hand is built with or driven to
MaxCards == 3

RankPool == {1, 5, 10}
Bankrolls == {100, 1000}
HandRanks == {1, 5, 9, 10, 13}
\* what the player may type at a prompt
Tokens == {"1", "2", "3", "4", "x"}

---------------------------------------------------------------------------
(* Program constants *)

NumSuits == 4
NumRanks == 13
DEFAULT_MINIMUM_BUY == 50
InPlay == 10
Lose == -1
Push == 0
Win == 1
BlackjackScore == 21
DealerStand == 17
\* config.DEALER_STAND_THRESHOLD as shipped
DEALER_STAND_THRESHOLD == 17

---------------------------------------------------------------------------
(* Card and Deck *)

\* a Card is the number 100 * suit + number: Card(2, 13) is 213
Card(s, n) == 100 * s + n
Suit(c) == c \div 100
Number(c) == c % 100

\* Deck.__init__: for each deck, for n in 1..13, for s in 0..3
NewDeck(num_decks) ==
    [k \in 1..(NumSuits * NumRanks * num_decks) |->
        Card(((k - 1) % (NumSuits * NumRanks)) % NumSuits,
             ((k - 1) % (NumSuits * NumRanks)) \div NumSuits + 1)]

\* draw handing out the last num cards in the order they lie in the list
DrawnCardsInDeckOrder(d, num) == SubSeq(d, Len(d) - num + 1, Len(d))

\* Deck.draw: num pops from the end, collected in pop order
DrawnCards(d, num) == [k \in 1..num |-> d[Len(d) - k + 1]]
DeckAfterDraw(d, num) == SubSeq(d, 1, Len(d) - num)

\* Deck.draw: list.pop raises IndexError on the empty list
CanDraw(d, num) == Len(d) >= num

\* returnToDeck losing the cards handed back
ReturnNothing(d, cards) == d

\* Deck.returnToDeck: append each card
ReturnToDeck(d, cards) == d \o cards

CountRank(d, r) == Cardinality({j \in DOMAIN d : Number(d[j]) = r})
CountCard(d, c) == Cardinality({j \in DOMAIN d : d[j] = c})

\* the cards of d in the order Deck.__init__ lists them: first one copy of
\* every card d holds, then a second copy of those it holds twice, and so on
RECURSIVE SortedFrom(_, _)
SortedFrom(d, m) ==
    LET layer == SelectSeq(NewDeck(1), LAMBDA c : CountCard(d, c) >= m)
    IN  IF layer = <<>> THEN <<>> ELSE layer \o SortedFrom(d, m + 1)

\* positions of d moved to the top for the rank sequence t: for each rank the
\* first position holding it that is not yet taken
RECURSIVE PickTop(_, _, _)
PickTop(d, t, k) ==
    IF k = 0 THEN <<>>
    ELSE LET before == PickTop(d, t, k - 1)
             taken == {before[j] : j \in DOMAIN before}
             free == {j \in DOMAIN d : Number(d[j]) = t[k] /\ j \notin taken}
         IN  Append(before, CHOOSE j \in free : \A m \in free : j <= m)

\* the sorted deck s with the cards for the rank sequence t moved to the top,
\* t[1] topmost
Arrange(s, t) ==
    LET picks == PickTop(s, t, Len(t))
        taken == {picks[j] : j \in DOMAIN picks}
        rest == SelectSeq([k \in 1..Len(s) |-> k], LAMBDA k : k \notin taken)
    IN  [k \in 1..Len(rest) |-> s[rest[k]]] \o
        [k \in 1..Len(t) |-> s[picks[Len(t) - k + 1]]]

TopSeqs(d) ==
    LET n == IF TopLen <= Len(d) THEN TopLen ELSE Len(d)
    IN  {t \in [1..n -> RankPool] :
            \A r \in RankPool :
                Cardinality({k \in 1..n : t[k] = r}) <= CountRank(d, r)}

\* the orders explored for a deck holding exactly the cards of a new deck
NewDeckOrders == {Arrange(NewDeck(NumDecks), t) : t \in TopSeqs(NewDeck(NumDecks))}

\* Deck.shuffleDeck: random.shuffle gives a permutation of the deck; the
\* permutations explored are those with any TopLen ranks of RankPool on top
\* and the other cards below them in the order of Deck.__init__
ShuffleDeck(d) ==
    LET s == SortedFrom(d, 1)
    IN  IF s = NewDeck(NumDecks) THEN NewDeckOrders
        ELSE {Arrange(s, t) : t \in TopSeqs(s)}

---------------------------------------------------------------------------
(* Hand *)

CardPoints(c) == IF Number(c) = 1 THEN 0 ELSE IF Number(c) > 9 THEN 10 ELSE Number(c)

RECURSIVE SumNonAces(_)
SumNonAces(cards) ==
    IF cards = <<>> THEN 0 ELSE CardPoints(Head(cards)) + SumNonAces(Tail(cards))

NumAces(cards) == Cardinality({k \in DOMAIN cards : Number(cards[k]) = 1})

\* updateScore with every Ace reduced at once when the total exceeds 21
ReduceAcesAllAtOnce(score, aces) ==
    IF score > 21 /\ aces > 0 THEN score - 10 * aces ELSE score

\* the while loop of updateScore
RECURSIVE ReduceAces(_, _)
ReduceAces(score, aces) ==
    IF score > BlackjackScore /\ aces > 0 THEN ReduceAces(score - 10, aces - 1) ELSE score

ComputeScore(cards) == ReduceAces(SumNonAces(cards) + NumAces(cards) * 11, NumAces(cards))

\* Hand.updateScore: the flags are only ever set, never cleared
UpdateScore(h) ==
    LET s == ComputeScore(h.cards)
    IN  [h EXCEPT !.score = s,
                  !.bust = IF s > BlackjackScore THEN TRUE ELSE @,
                  !.blackjack = IF s = BlackjackScore /\ Len(h.cards) = 2 THEN TRUE ELSE @]

\* Hand.__init__
Hand(cards, bet, isDealer) ==
    UpdateScore([hideDealerCards |-> isDealer, cards |-> cards, bust |-> FALSE,
                 bet |-> bet, status |-> InPlay, blackjack |-> FALSE,
                 split |-> FALSE, score |-> 0])

AddToHand(h, card) == UpdateScore([h EXCEPT !.cards = @ \o card])

PopFromHand(h) == UpdateScore([h EXCEPT !.cards = SubSeq(@, 1, Len(@) - 1)])

\* finishHand without the test that the dealer is not bust
FinishHandIgnoringDealerBust(h, d) ==
    [h EXCEPT !.status =
        IF h.bust \/ d.score > h.score THEN Lose
        ELSE IF d.score = h.score THEN Push
        ELSE Win]

FinishHand(h, d) ==
    [h EXCEPT !.status =
        IF h.bust \/ (~d.bust /\ d.score > h.score) THEN Lose
        ELSE IF d.score = h.score THEN Push
        ELSE Win]

\* the bankroll adjustment with a blackjack paid like any other win
PayoutBlackjackEvenMoney(h) ==
    IF h.status = Push THEN h.bet
    ELSE IF h.status = Win THEN h.bet * 2
    ELSE 0

\* the bankroll adjustment of play_dealer for a finished hand
Payout(h) ==
    IF h.status = Push THEN h.bet
    ELSE IF h.status = Win
         THEN (IF h.blackjack THEN (h.bet * 5) \div 2 ELSE h.bet * 2)
         ELSE 0

---------------------------------------------------------------------------
(* Game *)

\* no call on a Deck alone has been made
NoCall == [op |-> "", arg |-> 0, val |-> <<>>, raised |-> "", calls |-> 0]

\* the legacy script is not running
NoLegacy == [hands |-> <<>>, total_money |-> 0, bet |-> 0]

\* Game.__init__ with starting_bets = []: every hand bets minimum_buy
Init ==
    \E n \in 1..MaxHands, m \in Bankrolls :
        /\ n * DEFAULT_MINIMUM_BUY <= m
        /\ deck = NewDeck(NumDecks)
        /\ hands = [k \in 1..n |-> Hand(<<>>, DEFAULT_MINIMUM_BUY, FALSE)]
        /\ dealer = Hand(<<>>, 0, TRUE)
        /\ total_money = m - n * DEFAULT_MINIMUM_BUY
        /\ buy_in = m
        /\ pc = "begin"
        /\ i = 1
        /\ user_input = ""
        /\ num_hands = n
        /\ dealer_stand_threshold = DEALER_STAND_THRESHOLD
        /\ ret = NoCall
        /\ legacy = NoLegacy

\* begin_game: shuffleDeck, then deal() starts
BeginGame ==
    /\ pc = "begin"
    /\ deck' \in ShuffleDeck(deck)
    /\ pc' = "deal"
    /\ UNCHANGED <<hands, dealer, total_money, buy_in, i, user_input, roundFixed>>

\* deal(): one pass "for h in self.hands" from hand k on; g = [hands, deck, ok],
\* ok false once a draw has failed
RECURSIVE DealPass(_, _)
DealPass(g, k) ==
    IF k > Len(g.hands) \/ ~g.ok THEN g
    ELSE IF ~CanDraw(g.deck, 1) THEN [g EXCEPT !.ok = FALSE]
    ELSE DealPass([hands |-> [g.hands EXCEPT ![k] = AddToHand(@, DrawnCards(g.deck, 1))],
                   deck |-> DeckAfterDraw(g.deck, 1), ok |-> TRUE], k + 1)

\* deal() giving each hand its two cards at once, hand after hand
RECURSIVE DealTwoEach(_, _)
DealTwoEach(g, k) ==
    IF k > Len(g.hands) THEN g
    ELSE DealTwoEach([hands |-> [g.hands EXCEPT ![k] = AddToHand(@, DrawnCards(g.deck, 2))],
                      deck |-> DeckAfterDraw(g.deck, 2), ok |-> TRUE], k + 1)

DealPlayersHandByHand(hs, d) == DealTwoEach([hands |-> hs, deck |-> d, ok |-> TRUE], 1)

\* deal(): "for _ in range(2)"
DealPlayers(hs, d) == DealPass(DealPass([hands |-> hs, deck |-> d, ok |-> TRUE], 1), 1)

\* deal(): the test that aborts the attempt
DealerOpens21(d) == d.score = BlackjackScore

\* deal(): one iteration of "while not valid"; a draw from too few cards
\* empties the deck and raises
DealAttempt ==
    /\ pc = "deal"
    /\ LET g == DealPlayers(hands, deck)
       IN  IF g.ok /\ CanDraw(g.deck, 2)
           THEN /\ hands' = g.hands
                /\ dealer' = AddToHand(dealer, DrawnCards(g.deck, 2))
                /\ deck' = DeckAfterDraw(g.deck, 2)
                /\ pc' = IF DealerOpens21(dealer') THEN "reset" ELSE "turn"
           ELSE /\ hands' = g.hands
                /\ dealer' = dealer
                /\ deck' = <<>>
                /\ pc' = "underflow"
    /\ UNCHANGED <<total_money, buy_in, i, user_input, roundFixed>>

RECURSIVE AllHandCards(_)
AllHandCards(hs) == IF hs = <<>> THEN <<>> ELSE Head(hs).cards \o AllHandCards(Tail(hs))

\* resetDeck: cards go back, h.cards = [] (no updateScore), then shuffle
ResetDeck ==
    /\ pc = "reset"
    /\ deck' \in ShuffleDeck(ReturnToDeck(ReturnToDeck(deck, AllHandCards(hands)), dealer.cards))
    /\ hands' = [k \in DOMAIN hands |-> [hands[k] EXCEPT !.cards = <<>>]]
    /\ dealer' = [dealer EXCEPT !.cards = <<>>]
    /\ pc' = "deal"
    /\ UNCHANGED <<total_money, buy_in, i, user_input, roundFixed>>

\* play_players without its i += 1
EndTurnSameHand(hs) ==
    /\ i' = i
    /\ pc' = "turn"

\* play_players ending after the first hand
EndTurnToDealer(hs) ==
    /\ i' = 1
    /\ pc' = "dealer"

\* play_players: i += 1 and the loop test; actionPrompt has returned
EndTurn(hs) ==
    /\ i' = IF i < Len(hs) THEN i + 1 ELSE 1
    /\ pc' = IF i < Len(hs) THEN "turn" ELSE "dealer"

\* Game.hit giving the card to the first hand whatever player_no is
HitFirstHand(hs, k) == [hs EXCEPT ![1] = AddToHand(@, DrawnCards(deck, 1))]

\* Game.hit(player_no)
HitHand(hs, k) == [hs EXCEPT ![k] = AddToHand(@, DrawnCards(deck, 1))]

\* actionPrompt offering Double and Split without looking at the bankroll
ActionsWithoutBankrollTest(h) ==
    {"Hit", "Stay"} \cup
    (IF Len(h.cards) = 2 /\ ~h.split
     THEN {"Double"} \cup (IF Number(h.cards[1]) = Number(h.cards[2]) THEN {"Split"} ELSE {})
     ELSE {})

\* actionPrompt offering all four actions at its first prompt, whatever the hand
ActionsAllFour(h) == {"Hit", "Stay", "Double", "Split"}

\* the actions actionPrompt offers at its first prompt
Actions(h) ==
    {"Hit", "Stay"} \cup
    (IF Len(h.cards) = 2 /\ ~h.split /\ total_money >= h.bet
     THEN {"Double"} \cup (IF Number(h.cards[1]) = Number(h.cards[2]) THEN {"Split"} ELSE {})
     ELSE {})

\* what the prompt the engine is waiting at offers
Offered ==
    IF pc = "prompt" THEN Actions(hands[i])
    ELSE IF pc = "reprompt" THEN {"Hit", "Stay"}
    ELSE {}

\* valid_response: "1" .. str(len(actions)), and ["1", "2"] in the hit loop
ValidResponses == {ToString(k) : k \in 1..Cardinality(Offered)}

\* waitForInput taking whatever is typed
AcceptsAnything(t, validResponses) == TRUE

\* waitForInput: the loop ends on a token in validResponses
Accepts(t, validResponses) == t \in validResponses

\* waitForInput returns t, which "match user_input" takes to case c
Chosen(t, c) == t = c /\ Accepts(t, ValidResponses)

\* waitForInput: a token not in validResponses is asked for again; the token
\* stays inside waitForInput and actionPrompt's user_input is not assigned
InvalidInput ==
    /\ pc \in {"prompt", "reprompt"}
    /\ \E t \in Tokens : ~Accepts(t, ValidResponses)
    /\ UNCHANGED vars

\* actionPrompt never singling out split Aces
NeverSplitAces(h) == FALSE

\* actionPrompt: hand.split and hand.cards[0].number == 1
IsSplitAces(h) == h.split /\ Number(h.cards[1]) = 1

\* actionPrompt up to its first prompt
TurnStart ==
    /\ pc = "turn"
    /\ user_input' = ""
    /\ IF hands[i].blackjack
       THEN /\ EndTurn(hands)
            /\ UNCHANGED <<deck, hands>>
       ELSE IF IsSplitAces(hands[i])
            THEN IF CanDraw(deck, 1)
                 THEN /\ hands' = HitHand(hands, i)
                      /\ deck' = DeckAfterDraw(deck, 1)
                      /\ EndTurn(hands')
                 ELSE /\ pc' = "underflow"
                      /\ UNCHANGED <<deck, hands, i>>
            ELSE /\ pc' = "prompt"
                 /\ UNCHANGED <<deck, hands, i>>
    /\ UNCHANGED <<dealer, total_money, buy_in, roundFixed>>

\* the hit loop going on after a bust
HitWithoutBustBreak ==
    /\ pc \in {"prompt", "reprompt"}
    /\ \E t \in Tokens : Chosen(t, "1") /\ user_input' = t
    /\ IF CanDraw(deck, 1)
       THEN /\ hands' = HitHand(hands, i)
            /\ deck' = DeckAfterDraw(deck, 1)
            /\ pc' = "reprompt" /\ i' = i
       ELSE /\ pc' = "underflow"
            /\ UNCHANGED <<deck, hands, i>>
    /\ UNCHANGED <<dealer, total_money, buy_in, roundFixed>>

\* case "1": one iteration of the hit loop
Hit ==
    /\ pc \in {"prompt", "reprompt"}
    /\ \E t \in Tokens : Chosen(t, "1") /\ user_input' = t
    /\ IF CanDraw(deck, 1)
       THEN /\ hands' = HitHand(hands, i)
            /\ deck' = DeckAfterDraw(deck, 1)
            /\ IF hands'[i].bust
               THEN EndTurn(hands')
               ELSE pc' = "reprompt" /\ i' = i
       ELSE /\ pc' = "underflow"
            /\ UNCHANGED <<deck, hands, i>>
    /\ UNCHANGED <<dealer, total_money, buy_in, roundFixed>>

\* case "2", and "2" at the prompt inside the hit loop
Stay ==
    /\ pc \in {"prompt", "reprompt"}
    /\ \E t \in Tokens : Chosen(t, "2") /\ user_input' = t
    /\ EndTurn(hands)
    /\ UNCHANGED <<deck, hands, dealer, total_money, buy_in, roundFixed>>

\* case "3" leaving the recorded bet as it was
DoubleHandBetKept(h) == h

\* case "3"
DoubleHand(h) == [h EXCEPT !.bet = @ + @]

Double ==
    /\ pc \in {"prompt", "reprompt"}
    /\ \E t \in Tokens : Chosen(t, "3") /\ user_input' = t
    /\ total_money' = total_money - hands[i].bet
    /\ IF CanDraw(deck, 1)
       THEN /\ hands' = HitHand([hands EXCEPT ![i] = DoubleHand(@)], i)
            /\ deck' = DeckAfterDraw(deck, 1)
            /\ EndTurn(hands')
       ELSE /\ hands' = [hands EXCEPT ![i] = DoubleHand(@)]
            /\ pc' = "underflow"
            /\ UNCHANGED <<deck, i>>
    /\ UNCHANGED <<dealer, buy_in, roundFixed>>

\* case "4" putting the new hand at the end of the hand list
SplitHandsAppended(hs, k) ==
    LET hand == hs[k]
        new_hand == [Hand(<<hand.cards[Len(hand.cards)]>>, hand.bet, FALSE) EXCEPT !.split = TRUE]
        old_hand == [PopFromHand(hand) EXCEPT !.split = TRUE]
    IN  Append([hs EXCEPT ![k] = old_hand], new_hand)

\* case "4": the hand list with the new hand inserted after hand_i
SplitHands(hs, k) ==
    LET hand == hs[k]
        new_hand == [Hand(<<hand.cards[Len(hand.cards)]>>, hand.bet, FALSE) EXCEPT !.split = TRUE]
        old_hand == [PopFromHand(hand) EXCEPT !.split = TRUE]
    IN  SubSeq(hs, 1, k - 1) \o <<old_hand, new_hand>> \o SubSeq(hs, k + 1, Len(hs))

\* case "4"; actionPrompt(hand_i) is entered again
Split ==
    /\ pc \in {"prompt", "reprompt"}
    /\ \E t \in Tokens : Chosen(t, "4") /\ user_input' = t
    /\ total_money' = total_money - hands[i].bet
    /\ hands' = SplitHands(hands, i)
    /\ pc' = "turn"
    /\ UNCHANGED <<deck, dealer, buy_in, i, roundFixed>>

\* play_dealer: reveal the hidden card
DealerReveal ==
    /\ pc = "dealer"
    /\ dealer' = [dealer EXCEPT !.hideDealerCards = FALSE]
    /\ pc' = "dealer_draw"
    /\ user_input' = ""
    /\ UNCHANGED <<deck, hands, total_money, buy_in, i, roundFixed>>

\* play_dealer drawing on 17 as well
DealerMustDrawOn17(d) == d.score <= DealerStand

\* play_dealer: the while test
DealerMustDraw(d) == d.score < DealerStand

\* play_dealer: one iteration of the while loop
DealerDraw ==
    /\ pc = "dealer_draw"
    /\ DealerMustDraw(dealer)
    /\ IF CanDraw(deck, 1)
       THEN /\ dealer' = AddToHand(dealer, DrawnCards(deck, 1))
            /\ deck' = DeckAfterDraw(deck, 1)
            /\ pc' = pc
       ELSE /\ pc' = "underflow"
            /\ UNCHANGED <<deck, dealer>>
    /\ UNCHANGED <<hands, total_money, buy_in, i, user_input, roundFixed>>

\* play_dealer: "for h in self.hands" from hand k on; g = [hands, total_money]
RECURSIVE SettleFrom(_, _, _)
SettleFrom(g, d, k) ==
    IF k > Len(g.hands) THEN g
    ELSE LET h == FinishHand(g.hands[k], d)
         IN  SettleFrom([hands |-> [g.hands EXCEPT ![k] = h],
                         total_money |-> g.total_money + Payout(h)], d, k + 1)

\* play_dealer: the while loop exits and every hand is settled
Settle ==
    /\ pc = "dealer_draw"
    /\ ~DealerMustDraw(dealer)
    /\ LET g == SettleFrom([hands |-> hands, total_money |-> total_money], dealer, 1)
       IN  /\ hands' = g.hands
           /\ total_money' = g.total_money
    /\ pc' = "done"
    /\ UNCHANGED <<deck, dealer, buy_in, i, user_input, roundFixed>>

Next ==
    \/ BeginGame
    \/ DealAttempt
    \/ ResetDeck
    \/ TurnStart
    \/ InvalidInput
    \/ Hit
    \/ Stay
    \/ Double
    \/ Split
    \/ DealerReveal
    \/ DealerDraw
    \/ Settle

Spec == Init /\ [][Next]_vars

---------------------------------------------------------------------------
(* A Hand on its own: built from any card list, then addToHand and          *)
(* popFromHand in any order.  The hand is hands[1]; the rest of the state   *)
(* is unused.                                                               *)

CardLists(n) == UNION {[1..m -> {Card(0, r) : r \in HandRanks}] : m \in 0..n}

HandInit ==
    \E cs \in CardLists(MaxCards) :
        /\ hands = <<Hand(cs, DEFAULT_MINIMUM_BUY, FALSE)>>
        /\ deck = <<>>
        /\ dealer = Hand(<<>>, 0, TRUE)
        /\ total_money = 0
        /\ buy_in = 0
        /\ pc = "hand"
        /\ i = 1
        /\ user_input = ""
        /\ num_hands = 1
        /\ dealer_stand_threshold = DEALER_STAND_THRESHOLD
        /\ ret = NoCall
        /\ legacy = NoLegacy

HandAdd ==
    /\ pc = "hand"
    /\ Len(hands[1].cards) < MaxCards
    /\ \E r \in HandRanks : hands' = <<AddToHand(hands[1], <<Card(0, r)>>)>>
    /\ UNCHANGED <<deck, dealer, total_money, buy_in, pc, i, user_input, roundFixed>>

HandPop ==
    /\ pc = "hand"
    /\ Len(hands[1].cards) > 0
    /\ hands' = <<PopFromHand(hands[1])>>
    /\ UNCHANGED <<deck, dealer, total_money, buy_in, pc, i, user_input, roundFixed>>

HandNext == HandAdd \/ HandPop

HandSpec == HandInit /\ [][HandNext]_vars

---------------------------------------------------------------------------
(* play_dealer on its own, set up as tests/test_blackjack.py does: a Game   *)
(* of one hand and 1000, the dealer given two cards, the deck a short list, *)
(* under each configured value of config.DEALER_STAND_THRESHOLD.            *)

DealerDeckLen == 2
DealerRanks == {1, 2, 6, 7, 9, 10}
DrawRanks == {2, 3, 10}
\* the values config.DEALER_STAND_THRESHOLD is set to
Thresholds == {16, 17, 18}

DealerInit ==
    \E cs \in [1..2 -> DealerRanks], ds \in [1..DealerDeckLen -> DrawRanks], t \in Thresholds :
        /\ hands = <<Hand(<<>>, DEFAULT_MINIMUM_BUY, FALSE)>>
        /\ deck = [k \in 1..DealerDeckLen |-> Card(0, ds[k])]
        /\ dealer = Hand([k \in 1..2 |-> Card(0, cs[k])], 0, TRUE)
        /\ total_money = 1000 - DEFAULT_MINIMUM_BUY
        /\ buy_in = 1000
        /\ pc = "dealer"
        /\ i = 1
        /\ user_input = ""
        /\ num_hands = 1
        /\ dealer_stand_threshold = t
        /\ ret = NoCall
        /\ legacy = NoLegacy

DealerNext == DealerReveal \/ DealerDraw \/ Settle

DealerSpec == DealerInit /\ [][DealerNext]_vars

---------------------------------------------------------------------------
(* The round with its scheduling: the program runs on by itself, input()    *)
(* blocks until a line is typed and the player ends up typing a valid one,  *)
(* random.shuffle ends up giving an order whose deal the dealer does not    *)
(* open with 21.                                                            *)

\* the dealer's two cards of a deal from deck d
DealerOpening(d) == Hand(DrawnCards(DeckAfterDraw(d, 2 * Len(hands)), 2), 0, TRUE)

\* the shuffle gave an order on which deal() succeeds
GoodShuffle == pc = "deal" /\ ~DealerOpens21(DealerOpening(deck))

\* begin_game, deal() and resetDeck are the only steps at pc = "begin", "deal"
\* and "reset", and they are always possible there: their weak fairness is
\* leaving these places, and the strong fairness of a good shuffle is coming
\* to GoodShuffle again and again if resetDeck runs again and again
ShuffleFairness ==
    /\ []<>(pc # "begin")
    /\ []<>(pc # "deal")
    /\ []<>(pc # "reset")
    /\ <>[](pc # "reset") \/ []<>GoodShuffle

\* Game(1, 100)
LiveInit == Init /\ Len(hands) = 1 /\ buy_in = 100

LiveSpec ==
    /\ LiveInit /\ [][Next]_vars
    /\ ShuffleFairness
    /\ WF_vars(TurnStart)
    /\ WF_vars(Hit \/ Stay \/ Double \/ Split)
    /\ WF_vars(DealerReveal \/ DealerDraw \/ Settle)

---------------------------------------------------------------------------
(* A Deck on its own: built by blackjack.Deck, by cards.Deck or inside a    *)
(* Game, then draw and returnToDeck as tests/test_cards.py calls them.  The *)
(* shoe is deck; ret records the last call: its name, its argument, the     *)
(* shoe before it, what it returned or raised, and how many calls were made.*)

\* num_decks ranges over -1..MaxDeckArg
MaxDeckArg == 2
\* draw(num) is called with num in 0..DrawMax and with the sizes around len(deck)
DrawMax == 2
\* calls made on one Deck
MaxCalls == 4

Builders == {"blackjack.Deck", "cards.Deck", "Game"}

\* Deck.__init__ refusing negative counts only
RefusesBelowZero(num_decks) == num_decks < 0

\* Deck.__init__: if num_decks < 1: raise ValueError
Refuses(num_decks) == num_decks < 1

\* cards.Deck.__init__: for each deck, product(suits, numbers): suit by suit
CardsNewDeck(num_decks) ==
    [k \in 1..(NumSuits * NumRanks * num_decks) |->
        Card(((k - 1) % (NumSuits * NumRanks)) \div NumRanks,
             (((k - 1) % (NumSuits * NumRanks)) % NumRanks) + 1)]

\* the list the builder b makes; Game.__init__ makes a blackjack.Deck(num_decks)
Built(b, num_decks) ==
    IF b = "cards.Deck" THEN CardsNewDeck(num_decks) ELSE NewDeck(num_decks)

DeckInit ==
    \E b \in Builders, n \in -1..MaxDeckArg :
        /\ IF Refuses(n)
           THEN /\ deck = <<>>
                /\ pc = "ValueError"
                /\ ret = [op |-> b, arg |-> n, before |-> <<>>, val |-> <<>>,
                          raised |-> "ValueError", calls |-> 0]
           ELSE /\ deck = Built(b, n)
                /\ pc = "deck"
                /\ ret = [op |-> b, arg |-> n, before |-> <<>>, val |-> <<>>,
                          raised |-> "", calls |-> 0]
        /\ hands = <<>>
        /\ dealer = Hand(<<>>, 0, TRUE)
        /\ total_money = 0
        /\ buy_in = 0
        /\ i = 1
        /\ user_input = ""
        /\ num_hands = 0
        /\ dealer_stand_threshold = DEALER_STAND_THRESHOLD
        /\ legacy = NoLegacy

\* the sizes draw is called with
DrawSizes(d) == (0..DrawMax) \cup ({Len(d) - 1, Len(d), Len(d) + 1} \cap Nat)

\* draw handing back the cards that are left when there are too few
DrawShortReturnsRest(d, num) == [val |-> DrawnCards(d, Len(d)), raised |-> ""]

\* Deck.draw with too few cards: the pop on the emptied list raises IndexError,
\* nothing is returned
DrawShort(d, num) == [val |-> <<>>, raised |-> "IndexError"]

\* Deck.draw with too few cards: every pop before the failing one has happened
DeckAfterFailedDraw(d, num) == DeckAfterDraw(d, Len(d))

DeckDraw ==
    /\ pc = "deck"
    /\ ret.calls < MaxCalls
    /\ \E num \in DrawSizes(deck) :
        IF CanDraw(deck, num)
        THEN /\ deck' = DeckAfterDraw(deck, num)
             /\ ret' = [op |-> "draw", arg |-> num, before |-> deck,
                        val |-> DrawnCards(deck, num), raised |-> "",
                        calls |-> ret.calls + 1]
        ELSE /\ deck' = DeckAfterFailedDraw(deck, num)
             /\ ret' = [op |-> "draw", arg |-> num, before |-> deck,
                        val |-> DrawShort(deck, num).val,
                        raised |-> DrawShort(deck, num).raised,
                        calls |-> ret.calls + 1]
    /\ UNCHANGED <<hands, dealer, total_money, buy_in, pc, i, user_input,
                   num_hands, dealer_stand_threshold, legacy>>

\* returnToDeck(cards) with the cards the draw before handed out; before keeps
\* the shoe as it was ahead of that draw
DeckReturn ==
    /\ pc = "deck"
    /\ ret.calls < MaxCalls
    /\ ret.op = "draw"
    /\ ret.raised = ""
    /\ deck' = ReturnToDeck(deck, ret.val)
    /\ ret' = [op |-> "returnToDeck", arg |-> ret.val, before |-> ret.before,
               val |-> Len(ret.val), raised |-> "", calls |-> ret.calls + 1]
    /\ UNCHANGED <<hands, dealer, total_money, buy_in, pc, i, user_input,
                   num_hands, dealer_stand_threshold, legacy>>

DeckNext == DeckDraw \/ DeckReturn

DeckSpec == DeckInit /\ [][DeckNext]_vars

---------------------------------------------------------------------------
(* The Double step of the script Blackjack.py beside that of blackjack.py.  *)
(* Both session loops ask for the number of hands and one bet per hand and  *)
(* build Game(num_hands, buy_in, increments, bets); both engines are taken  *)
(* at the point where every hand holds its two cards.  legacy is the        *)
(* script's Game with the script's global bet, which the session loop left  *)
(* at the bet entered last.                                                 *)

\* the bets entered at "Bet: "
Bets == {50, 100}
\* the ranks the hands are dealt from
DoubleRanks == {5, 10}
\* the shoe of both engines: cards enough for one hit per hand
DoubleDeck == [k \in 1..MaxHands |-> Card(0, 2 + k)]

RECURSIVE SumSeq(_)
SumSeq(q) == IF q = <<>> THEN 0 ELSE Head(q) + SumSeq(Tail(q))

DoubleInit ==
    \E n \in 1..MaxHands, m \in Bankrolls :
    \E bs \in [1..n -> Bets], cs \in [1..n -> [1..2 -> DoubleRanks]] :
        /\ SumSeq(bs) <= m
        /\ hands = [k \in 1..n |-> Hand(<<Card(0, cs[k][1]), Card(1, cs[k][2])>>, bs[k], FALSE)]
        /\ total_money = m - SumSeq(bs)
        /\ deck = DoubleDeck
        /\ legacy = [hands |-> hands, total_money |-> total_money,
                     deck |-> deck, bet |-> bs[n]]
        /\ dealer = Hand(<<>>, 0, TRUE)
        /\ buy_in = m
        /\ pc = "double"
        /\ i = 1
        /\ user_input = ""
        /\ num_hands = n
        /\ dealer_stand_threshold = DEALER_STAND_THRESHOLD
        /\ ret = NoCall

\* Blackjack.py, actionPrompt: Double is on offer
LegacyOffersDouble(g, k) ==
    /\ Len(g.hands[k].cards) = 2
    /\ ~g.hands[k].split
    /\ g.total_money >= g.hands[k].bet

\* Blackjack.py, case "3": self.total_money -= hand.bet; hand.bet += bet;
\* self.hit(hand_i), with bet the global of the session loop
LegacyDouble(g, k) ==
    [g EXCEPT !.total_money = @ - g.hands[k].bet,
              !.hands[k] = AddToHand([@ EXCEPT !.bet = @ + g.bet], DrawnCards(g.deck, 1)),
              !.deck = DeckAfterDraw(@, 1)]

\* hand k is doubled in both engines
DoubleBoth ==
    /\ pc = "double"
    /\ \E k \in DOMAIN hands :
        /\ "Double" \in Actions(hands[k])
        /\ LegacyOffersDouble(legacy, k)
        /\ CanDraw(deck, 1) /\ CanDraw(legacy.deck, 1)
        /\ total_money' = total_money - hands[k].bet
        /\ hands' = HitHand([hands EXCEPT ![k] = DoubleHand(@)], k)
        /\ deck' = DeckAfterDraw(deck, 1)
        /\ legacy' = LegacyDouble(legacy, k)
        /\ i' = k
    /\ UNCHANGED <<dealer, buy_in, pc, user_input, num_hands, dealer_stand_threshold, ret>>

DoubleNext == DoubleBoth

DoubleSpec == DoubleInit /\ [][DoubleNext]_vars

---------------------------------------------------------------------------
(* Vocabulary of the properties *)

Ranks(cards) == [k \in DOMAIN cards |-> Number(cards[k])]

\* sum over the ranks r..13 of (cards of that rank) * (10 for 10..13, else r)
RECURSIVE RankTotal(_, _)
RankTotal(cards, r) ==
    IF r > 13 THEN 0
    ELSE Cardinality({k \in DOMAIN cards : Number(cards[k]) = r}) * (IF r >= 10 THEN 10 ELSE r)
         + RankTotal(cards, r + 1)

\* the score the rules give: all Aces at 11, then the fewest Aces at 1 that
\* bring the total to 21 or less, all of them when none does
RuleScore(cards) ==
    LET aces == Cardinality({k \in DOMAIN cards : Number(cards[k]) = 1})
        high == RankTotal(cards, 2) + 11 * aces
        fits == {n \in 0..aces : high - 10 * n <= 21}
    IN  IF fits = {} THEN high - 10 * aces
        ELSE high - 10 * (CHOOSE n \in fits : \A m \in fits : n <= m)

AllHands == {hands[k] : k \in DOMAIN hands} \cup {dealer}

\* two cards that total 21
Natural(h) == Len(h.cards) = 2 /\ RuleScore(h.cards) = 21

---------------------------------------------------------------------------
(* C1: after Hand construction and after every addToHand or popFromHand,   *)
(* the score is the sum of the non-Ace ranks (11-13 counted as 10) plus 11 *)
(* per Ace, less 10 per Ace while the total exceeds 21 and an Ace still    *)
(* counts 11; [A,9] is 20, [A,K] is 21, [A,A,9] is 21, [10,9,5] is 24.     *)
C1_ScoreIsRuleScore ==
    LET h == hands[1]
    IN  /\ h.score = RuleScore(h.cards)
        /\ Ranks(h.cards) = <<1, 9>> => h.score = 20
        /\ Ranks(h.cards) = <<1, 13>> => h.score = 21
        /\ Ranks(h.cards) = <<1, 1, 9>> => h.score = 21
        /\ Ranks(h.cards) = <<10, 9, 5>> => h.score = 24

\* [A,A,9]: one Ace reduced, one still 11
C1_Witness == Ranks(hands[1].cards) = <<1, 1, 9>> /\ hands[1].score = 21

(* C2: in every reachable state of a round, a hand's blackjack flag is     *)
(* true if and only if the hand holds exactly two cards and scores 21.     *)
C2_BlackjackIffTwoCards21 ==
    \A h \in AllHands : h.blackjack <=> (Len(h.cards) = 2 /\ h.score = 21)

(* C3: no hand with split = true, and no hand that has received a card     *)
(* through Hit, ever has blackjack = true, so none is paid 2.5 x its bet.  *)
C3_NoBlackjackAfterSplitOrHit ==
    \A k \in DOMAIN hands :
        (hands[k].split \/ Len(hands[k].cards) > 2) =>
            /\ ~hands[k].blackjack
            /\ pc = "done" => Payout(hands[k]) <= 2 * hands[k].bet

(* C4: finishHand sets Lose if the hand is bust or the dealer is not bust  *)
(* and scores more; otherwise Push if the scores are equal; otherwise Win. *)
(* So a bust hand loses whatever the dealer has, a hand that is not bust   *)
(* wins against a bust dealer, and equal scores of 21 or less are a Push.  *)
C4_SettleStatus ==
    pc = "done" =>
        \A k \in DOMAIN hands :
            LET h == hands[k]
                loses == h.bust \/ (~dealer.bust /\ dealer.score > h.score)
            IN  /\ loses => h.status = Lose
                /\ (~loses /\ dealer.score = h.score) => h.status = Push
                /\ (~loses /\ dealer.score # h.score) => h.status = Win
                /\ RuleScore(h.cards) > 21 => h.status = Lose
                /\ (RuleScore(h.cards) <= 21 /\ RuleScore(dealer.cards) > 21) => h.status = Win
                /\ (RuleScore(h.cards) <= 21 /\ RuleScore(dealer.cards) = RuleScore(h.cards))
                       => h.status = Push

\* the dealer is bust, one hand is bust too and lost, another won
C4_Witness ==
    /\ pc = "done"
    /\ dealer.bust
    /\ \E k \in DOMAIN hands : hands[k].bust /\ hands[k].status = Lose
    /\ \E k \in DOMAIN hands : ~hands[k].bust /\ hands[k].status = Win

\* twice what the rules pay back on a settled hand
TwiceRulePayout(h) ==
    CASE h.status = Push -> 2 * h.bet
      [] h.status = Win /\ ~h.blackjack -> 4 * h.bet
      [] h.status = Win /\ h.blackjack -> 5 * h.bet
      [] OTHER -> 0

RECURSIVE SumTwiceRulePayout(_)
SumTwiceRulePayout(hs) ==
    IF hs = <<>> THEN 0 ELSE TwiceRulePayout(Head(hs)) + SumTwiceRulePayout(Tail(hs))

(* C5: settlement settles every hand of the final hand sequence exactly    *)
(* once: no hand has a status before it, each has Lose, Push or Win after  *)
(* it, and the bankroll grows by exactly the sum of bet for Push, 2 x bet  *)
(* for Win, 2.5 x bet for Win with blackjack and 0 for Lose.               *)
C5_Settlement ==
    /\ [](pc # "done" => \A k \in DOMAIN hands : hands[k].status = InPlay)
    /\ [](pc = "done" => \A k \in DOMAIN hands : hands[k].status \in {Lose, Push, Win})
    /\ [][(pc # "done" /\ pc' = "done") =>
            /\ Len(hands') = Len(hands)
            /\ \A k \in DOMAIN hands : [hands'[k] EXCEPT !.status = InPlay] = hands[k]
            /\ 2 * (total_money' - total_money) = SumTwiceRulePayout(hands')]_vars

\* a winning blackjack and a push settled in the same round
C5_Witness ==
    /\ pc = "done"
    /\ \E k \in DOMAIN hands : hands[k].status = Win /\ hands[k].blackjack
    /\ \E k \in DOMAIN hands : hands[k].status = Push

(* C6: bankroll 1000, one hand, bet 50: whenever the dealt hand is a       *)
(* natural blackjack and the dealer's hand is not, the round ends with     *)
(* bankroll 1075.                                                          *)
C6_NaturalEndsAt1075 ==
    (/\ pc = "done"
     /\ buy_in = 1000
     /\ Len(hands) = 1
     /\ hands[1].bet = 50
     /\ Natural(hands[1])
     /\ ~Natural(dealer)) => total_money = 1075

(* C7: when the dealer opens with 21 the deal is retried from scratch:     *)
(* every attempt starts with all cards in the shoe and every hand, the     *)
(* dealer's included, without cards, score 0, not bust, not blackjack.     *)
C7_AttemptStartsClean ==
    pc = "deal" =>
        /\ Len(deck) = NumSuits * NumRanks * NumDecks
        /\ \A h \in AllHands :
               h.cards = <<>> /\ h.score = 0 /\ ~h.bust /\ ~h.blackjack

(* C8: a deal attempt gives one card to every hand in list order, then a   *)
(* second card to every hand in list order, then two cards to the dealer;  *)
(* the deal phase completes with two cards in every hand and a dealer      *)
(* whose two cards do not total 21.                                        *)
C8_DealOrder ==
    [][pc = "deal" =>
        LET n == Len(hands)
            top == Len(deck)
        IN  /\ Len(hands') = n
            /\ \A k \in 1..n : hands'[k].cards = <<deck[top - k + 1], deck[top - n - k + 1]>>
            /\ dealer'.cards = <<deck[top - 2 * n], deck[top - 2 * n - 1]>>
            /\ deck' = SubSeq(deck, 1, top - 2 * n - 2)
            /\ pc' \in {"turn", "reset"}
            /\ pc' = "turn" <=> RuleScore(dealer'.cards) # 21
            /\ pc' = "turn" => i' = 1]_vars

\* two hands dealt after an aborted attempt (the dealer's flag is left over)
C8_Witness ==
    /\ pc = "turn"
    /\ i = 1
    /\ Len(hands) = 2
    /\ \A k \in DOMAIN hands : Len(hands[k].cards) = 2 /\ ~hands[k].split
    /\ dealer.blackjack
    /\ Len(dealer.cards) = 2
    /\ dealer.score # 21

(* C9: at the start of a hand's turn the engine ends the turn without      *)
(* asking exactly when the hand is a natural blackjack (cards, bets and    *)
(* bankroll then unchanged) or a split hand whose single card is an Ace;   *)
(* every other hand is offered at least Hit and Stay.                      *)
C9_UnpromptedOnlyNaturalOrSplitAce ==
    [][pc = "turn" =>
        LET h == hands[i]
            splitAce == h.split /\ Len(h.cards) = 1 /\ Number(h.cards[1]) = 1
        IN  /\ pc' # "prompt" <=> (Natural(h) \/ splitAce)
            /\ Natural(h) => UNCHANGED <<hands, total_money, deck>>
            /\ pc' = "prompt" => {"Hit", "Stay"} \subseteq Offered']_vars

\* the turn a Double ended is over: the engine is at a later hand or beyond
TurnOver(k) == pc \in {"dealer", "dealer_draw", "done"} \/ (pc \in {"turn", "prompt", "reprompt"} /\ i > k)

(* C10: Double is offered only to a hand of exactly two cards that is not  *)
(* split, with bankroll >= bet; it takes the bet from the bankroll, makes  *)
(* the hand's bet twice what it was, draws exactly one card into the hand  *)
(* and ends the turn, bust or not: the hand ends with exactly three cards. *)
C10_Double ==
    /\ []("Double" \in Offered =>
            /\ Len(hands[i].cards) = 2
            /\ ~hands[i].split
            /\ total_money >= hands[i].bet)
    /\ [](\A k \in DOMAIN hands :
            hands[k].bet # DEFAULT_MINIMUM_BUY =>
                /\ hands[k].bet = 2 * DEFAULT_MINIMUM_BUY
                /\ Len(hands[k].cards) = 3
                /\ TurnOver(k))
    /\ [][(Len(hands') = Len(hands) /\ \E k \in DOMAIN hands : hands'[k].bet # hands[k].bet) =>
            /\ "Double" \in Offered
            /\ total_money' = total_money - hands[i].bet
            /\ hands' = [hands EXCEPT ![i] =
                    [@ EXCEPT !.bet = 2 * hands[i].bet,
                              !.cards = Append(hands[i].cards, deck[Len(deck)]),
                              !.score = RuleScore(Append(hands[i].cards, deck[Len(deck)])),
                              !.bust = RuleScore(Append(hands[i].cards, deck[Len(deck)])) > 21]]
            /\ deck' = SubSeq(deck, 1, Len(deck) - 1)
            /\ dealer' = dealer
            /\ (pc' = "turn" /\ i' = i + 1) \/ pc' = "dealer"]_vars

\* a hand that doubled and went bust, its turn over
C10_Witness ==
    \E k \in DOMAIN hands :
        /\ hands[k].bet = 2 * DEFAULT_MINIMUM_BUY
        /\ hands[k].bust
        /\ Len(hands[k].cards) = 3
        /\ TurnOver(k)

---------------------------------------------------------------------------
\* the engine is inside play_players
InPlayerPhase == pc \in {"turn", "prompt", "reprompt"}

\* what Split asks of the hand at the prompt
Splittable(h) ==
    /\ Len(h.cards) = 2
    /\ Number(h.cards[1]) = Number(h.cards[2])
    /\ ~h.split

(* C11: Split is offered and executed only for a current hand of exactly   *)
(* two cards of equal rank that is not split, with bankroll >= bet; it     *)
(* takes the bet from the bankroll, leaves the hand its first card, makes  *)
(* a hand of the second card with the same bet, marks both split, puts the *)
(* new hand right after the old one, the other hands keeping their order,  *)
(* and draws no card.                                                      *)
C11_Split ==
    /\ []("Split" \in Offered => Splittable(hands[i]) /\ total_money >= hands[i].bet)
    /\ [][Len(hands') # Len(hands) =>
            LET h == hands[i]
            IN  /\ "Split" \in Offered
                /\ Splittable(h) /\ total_money >= h.bet
                /\ total_money' = total_money - h.bet
                /\ Len(hands') = Len(hands) + 1
                /\ hands'[i].cards = <<h.cards[1]>>
                /\ hands'[i + 1].cards = <<h.cards[2]>>
                /\ hands'[i].bet = h.bet /\ hands'[i + 1].bet = h.bet
                /\ hands'[i].split /\ hands'[i + 1].split
                /\ \A k \in DOMAIN hands :
                        /\ k < i => hands'[k] = hands[k]
                        /\ k > i => hands'[k + 1] = hands[k]
                /\ deck' = deck
                /\ dealer' = dealer]_vars

\* the first of two hands has just been split: the new hand stands between
\* it and the hand that was second
C11_Witness ==
    /\ pc = "turn" /\ i = 1 /\ user_input = "4"
    /\ Len(hands) = 3
    /\ hands[1].split /\ Len(hands[1].cards) = 1
    /\ hands[2].split /\ Len(hands[2].cards) = 1
    /\ ~hands[3].split /\ Len(hands[3].cards) = 2

(* C12: the hands are played in list order, one at a time: play starts at  *)
(* the first hand, a split keeps the play on the hand that was split, a    *)
(* turn that ends passes the play to the very next hand of the list, and   *)
(* the dealer phase starts only from the last hand of the final list, so   *)
(* that every hand has exactly one turn.                                   *)
C12_ListOrder ==
    [][/\ (pc = "deal" /\ pc' = "turn") => i' = 1
       /\ InPlayerPhase =>
            /\ i \in DOMAIN hands
            /\ pc' \in {"turn", "prompt", "reprompt", "dealer"}
            /\ Len(hands') # Len(hands) => (pc' = "turn" /\ i' = i)
            /\ pc' \in {"prompt", "reprompt"} => i' = i
            /\ (pc' = "turn" /\ i' # i) => (i' = i + 1 /\ Len(hands') = Len(hands))
            /\ pc' = "dealer" => (i = Len(hands) /\ Len(hands') = Len(hands))
       /\ pc' = "dealer" => InPlayerPhase]_vars

\* both hands of a split have had their turn and the hand that was second
\* in the list, now third, is at its prompt
C12_Witness ==
    /\ pc = "prompt" /\ i = 3
    /\ Len(hands) = 3
    /\ hands[1].split /\ hands[2].split /\ ~hands[3].split
    /\ Len(hands[1].cards) >= 2 /\ Len(hands[2].cards) >= 2

(* C13: a hand of a split pair of Aces is never at a prompt; it gets one   *)
(* card when its turn comes and the turn ends, so it leaves the player     *)
(* phase with exactly two cards.                                           *)
C13_SplitAces ==
    \A k \in DOMAIN hands :
        (hands[k].split /\ Len(hands[k].cards) >= 1 /\ Number(hands[k].cards[1]) = 1) =>
            /\ Len(hands[k].cards) \in {1, 2}
            /\ pc \in {"prompt", "reprompt"} => i # k
            /\ TurnOver(k) => Len(hands[k].cards) = 2
            /\ Len(hands[k].cards) = 1 => (pc = "turn" /\ i <= k)

\* the player phase is over and both hands of a split pair of Aces hold
\* two cards
C13_Witness ==
    /\ pc = "dealer"
    /\ \E k \in DOMAIN hands :
        /\ k + 1 \in DOMAIN hands
        /\ \A j \in {k, k + 1} :
            hands[j].split /\ Number(hands[j].cards[1]) = 1 /\ Len(hands[j].cards) = 2

(* C14: the dealer's hide flag is cleared before any draw; the dealer      *)
(* draws one card at a time and only at a score below 17 (never at 17 or   *)
(* more, soft 17 included); the phase ends at 17 or more; a dealer at 16   *)
(* who draws a 2 draws exactly one card.                                   *)
C14_DealerPlay ==
    LET cards == dealer.cards
    IN  /\ pc = "dealer" => (dealer.hideDealerCards /\ Len(cards) = 2)
        /\ pc # "dealer" => ~dealer.hideDealerCards
        /\ Len(deck) + Len(cards) = DealerDeckLen + 2
        /\ \A n \in 3..Len(cards) : RuleScore(SubSeq(cards, 1, n - 1)) < 17
        /\ pc = "done" => RuleScore(cards) >= 17
        /\ (Len(cards) >= 3 /\ RuleScore(SubSeq(cards, 1, 2)) = 16 /\ Number(cards[3]) = 2)
                => Len(cards) = 3

\* the dealer held 10 and 6, drew the 2 and stood on 18
C14_Witness == pc = "done" /\ Ranks(dealer.cards) = <<10, 6, 2>> /\ Len(deck) = DealerDeckLen - 1

(* C15: the bankroll, not negative when the player phase starts, is never  *)
(* negative after a Double or a Split.                                     *)
C15_BankrollNotNegative == total_money >= 0

\* a Double or a Split has just taken the last of the bankroll
C15_Witness == user_input \in {"3", "4"} /\ total_money = 0

(* C16: after any sequence of addToHand and popFromHand the hand is        *)
(* flagged bust exactly when its score is over 21.                         *)
C16_BustIffOver21 == hands[1].bust <=> hands[1].score > 21

\* the hand's cards totalled with every Ace at 1
RECURSIVE PipTotal(_)
PipTotal(cards) ==
    IF cards = <<>> THEN 0
    ELSE (IF Number(Head(cards)) >= 10 THEN 10 ELSE Number(Head(cards))) + PipTotal(Tail(cards))

(* C17: under the scheduling of LiveSpec a round that has begun reaches    *)
(* its settlement: the deal loop, every player turn and the dealer's loop  *)
(* end, no draw fails, and every hand is given a final status.             *)
C17_RoundSettles ==
    <>(pc = "done" /\ \A k \in DOMAIN hands : hands[k].status \in {Lose, Push, Win})

\* a round settled after a hand was hit until it bust and the dealer drew
C17_Witness ==
    /\ pc = "done"
    /\ \E k \in DOMAIN hands : hands[k].bust /\ Len(hands[k].cards) >= 4 /\ hands[k].status = Lose
    /\ Len(dealer.cards) >= 3

C19_OnlyOfferedActions ==
    [][(pc \in {"prompt", "reprompt"} =>
        LET n == Cardinality(Offered)
            h == hands[i]
        IN  /\ user_input' \in {"1", "2", "3", "4"}
            /\ \E k \in 1..n : user_input' = ToString(k)
            /\ user_input' = "1" =>
                    /\ "Hit" \in Offered
                    /\ Len(hands') = Len(hands)
                    /\ hands'[i].cards = Append(h.cards, deck[Len(deck)])
                    /\ hands'[i].bet = h.bet /\ total_money' = total_money
            /\ user_input' = "2" =>
                    /\ "Stay" \in Offered
                    /\ UNCHANGED <<hands, deck, total_money>>
            /\ user_input' = "3" =>
                    /\ "Double" \in Offered
                    /\ Len(hands') = Len(hands)
                    /\ hands'[i].bet = 2 * h.bet /\ total_money' = total_money - h.bet
            /\ user_input' = "4" =>
                    /\ "Split" \in Offered
                    /\ Len(hands') = Len(hands) + 1 /\ total_money' = total_money - h.bet)]_vars

\* a hand that was hit and then stood, at a prompt where only "1" and "2"
\* were valid
C19_Witness ==
    /\ pc \in {"turn", "dealer"} /\ user_input = "2"
    /\ \E k \in DOMAIN hands : Len(hands[k].cards) = 3 /\ ~hands[k].bust /\ hands[k].bet = DEFAULT_MINIMUM_BUY

\* the bag of the cards of a card list: each card with the number of
\* places of the list that hold it
CardBag(cards) ==
    BagOfAll(LAMBDA p : p[1], SetToBag({<<cards[k], k>> : k \in DOMAIN cards}))

CardsOfShoe == {NewDeck(1)[k] : k \in DOMAIN NewDeck(1)}

(* C20: at every point of a round, before and after every shuffle, draw    *)
(* and return, the cards of the shoe, of the player hands and of the       *)
(* dealer are together the cards of the fresh shoe, each (suit, rank) as   *)
(* many times as there are decks.                                          *)
C20_CardsConserved ==
    LET all == deck \o AllHandCards(hands) \o dealer.cards
    IN  CardBag(all) = [c \in CardsOfShoe |-> NumDecks]

\* a round after a redeal, at its end: cards in the hands, with the dealer
\* and in the shuffled shoe
C20_Witness ==
    /\ pc = "done"
    /\ \E k \in DOMAIN hands : hands[k].blackjack /\ ~Natural(hands[k]) /\ Len(hands[k].cards) >= 2
    /\ Len(dealer.cards) >= 3
    /\ Len(deck) < Len(NewDeck(NumDecks)) - 5

\* C21: a shoe is built exactly when num_decks >= 1, by blackjack.Deck, by
\* cards.Deck and through Game alike; it then holds 52 * num_decks cards,
\* num_decks of each of the 52 (suit, rank) pairs; with num_decks < 1 the
\* construction raises ValueError and there is no shoe.
C21_ShoeConstruction ==
    ret.op \in Builders =>
        /\ (ret.raised = "") <=> (ret.arg >= 1)
        /\ ret.arg >= 1 =>
            /\ pc = "deck"
            /\ Len(deck) = 52 * ret.arg
            /\ \A s \in 0..3, n \in 1..13 : CountCard(deck, Card(s, n)) = ret.arg
        /\ ret.arg < 1 => ret.raised = "ValueError" /\ pc = "ValueError" /\ deck = <<>>

\* cards.Deck(2): the second suit starts at the 14th card
C21_Witness ==
    /\ ret.op = "cards.Deck" /\ ret.arg = 2
    /\ Len(deck) = 104 /\ deck[14] = Card(1, 1)

\* C22: draw(n) with 0 <= n <= size hands out the last n cards, the top one
\* first, and leaves the first size - n cards; draw(0) hands out the empty
\* list and leaves the shoe as it was; returnToDeck appends the cards at the
\* end and reports how many; a draw followed by the return of its cards
\* restores the count and the multiset of the shoe.
C22_DrawAndReturn ==
    /\ (ret.op = "draw" /\ ret.arg <= Len(ret.before)) =>
        /\ ret.raised = ""
        /\ Len(ret.val) = ret.arg
        /\ \A k \in 1..ret.arg : ret.val[k] = ret.before[Len(ret.before) - k + 1]
        /\ Len(deck) = Len(ret.before) - ret.arg
        /\ \A k \in 1..Len(deck) : deck[k] = ret.before[k]
        /\ ret.arg = 0 => ret.val = <<>> /\ deck = ret.before
    /\ ret.op = "returnToDeck" =>
        /\ ret.val = Len(ret.arg)
        /\ \A k \in 1..Len(ret.arg) : deck[Len(deck) - Len(ret.arg) + k] = ret.arg[k]
        /\ \A k \in 1..(Len(deck) - Len(ret.arg)) : deck[k] = ret.before[k]
        /\ Len(deck) = Len(ret.before)
        /\ CardBag(deck) = CardBag(ret.before)

\* two cards drawn from a fresh blackjack.Deck and handed back: the two Kings
\* on top have changed places
C22_Witness ==
    /\ ret.op = "returnToDeck" /\ ret.val = 2
    /\ ret.before = NewDeck(1)
    /\ deck # ret.before
    /\ deck[52] = ret.before[51]

\* C23: draw(n) with n above the number of cards left raises IndexError and
\* hands out nothing, never fewer than n cards; draw(1) on the empty shoe
\* raises.
C23_DrawTooManyRaises ==
    (ret.op = "draw" /\ ret.arg > Len(ret.before)) =>
        ret.raised = "IndexError" /\ ret.val = <<>>

\* draw(1) on a shoe that was emptied
C23_Witness ==
    /\ ret.op = "draw" /\ ret.arg = 1 /\ ret.before = <<>>
    /\ ret.raised = "IndexError"

\* C28: a draw that raises leaves the shoe as it was, same cards in the same
\* order.
C28_FailedDrawKeepsShoe ==
    (ret.op = "draw" /\ ret.raised = "IndexError") => deck = ret.before

\* C24: the dealer stands at the configured threshold: whatever value T
\* config.DEALER_STAND_THRESHOLD has, every card the dealer draws is drawn at
\* a score below T and the dealer's play ends at a score of T or more.
C24_ConfiguredThreshold ==
    /\ \A k \in 3..Len(dealer.cards) :
           RuleScore(SubSeq(dealer.cards, 1, k - 1)) < dealer_stand_threshold
    /\ pc = "done" => RuleScore(dealer.cards) >= dealer_stand_threshold

\* the step in which the hand at the prompt stands
StayStep == pc \in {"prompt", "reprompt"} /\ user_input' = "2" /\ pc' # pc

\* where hand k of this state is in the next one: a split of the current
\* hand moves the hands after it one place up
PlaceAfter(k) == IF Len(hands') > Len(hands) /\ k > i THEN k + 1 ELSE k

\* C25: Stand changes no card, no bet, not the bankroll and not the shoe; a
\* hand whose turn has ended keeps its cards and its bet for the rest of the
\* round; a bust hand gets no further card; in the player phase no hand but
\* the current one is changed.
C25_Frame ==
    [][ /\ StayStep => UNCHANGED <<hands, total_money, deck, dealer>>
        /\ \A k \in DOMAIN hands :
            /\ TurnOver(k) =>
                /\ hands'[k].cards = hands[k].cards
                /\ hands'[k].bet = hands[k].bet
            /\ (hands[k].bust /\ (InPlayerPhase \/ TurnOver(k))) =>
                hands'[k].cards = hands[k].cards
            /\ (InPlayerPhase /\ k # i) => hands'[PlaceAfter(k)] = hands[k]
      ]_vars

\* the first hand stood on its two cards, the second is in its hit loop
C25_Witness ==
    /\ pc = "reprompt" /\ i = 2 /\ Len(hands) = 2
    /\ Len(hands[1].cards) = 2 /\ ~hands[1].blackjack /\ ~hands[1].split
    /\ hands[1].bet = DEFAULT_MINIMUM_BUY
    /\ Len(hands[2].cards) = 3

\* the bets on the player hands, added up
RECURSIVE SumBets(_)
SumBets(hs) == IF hs = <<>> THEN 0 ELSE Head(hs).bet + SumBets(Tail(hs))

\* C26: from the construction of the Game until settlement begins, the
\* bankroll plus the bets on all player hands is the bankroll the Game was
\* constructed with.
C26_MoneyConserved == pc # "done" => total_money + SumBets(hands) = buy_in

\* one hand was split and another doubled, the dealer is about to play
C26_Witness ==
    /\ pc = "dealer"
    /\ \E k \in DOMAIN hands : hands[k].split
    /\ \E k \in DOMAIN hands : ~hands[k].split /\ hands[k].bet = 2 * DEFAULT_MINIMUM_BUY
    /\ total_money = buy_in - 4 * DEFAULT_MINIMUM_BUY

\* the number of originally dealt hands the hand list hs is made of, when it
\* is a row of unsplit hands and of pairs of neighbouring split hands (the two
\* halves of one split); -1 when it is not such a row
RECURSIVE OriginalHands(_)
OriginalHands(hs) ==
    IF hs = <<>> THEN 0
    ELSE LET step == IF ~hs[1].split THEN 1
                     ELSE IF Len(hs) >= 2 /\ hs[2].split THEN 2 ELSE 0
             rest == IF step = 0 THEN -1 ELSE OriginalHands(SubSeq(hs, step + 1, Len(hs)))
         IN  IF rest < 0 THEN -1 ELSE 1 + rest

\* C27: a hand with split set is never offered Double or Split, so every
\* originally dealt hand is split at most once (the hand list is the dealt
\* hands, each one whole or as its two halves) and the list is never longer
\* than twice the number of hands the round started with.
C27_SplitOnce ==
    /\ (pc \in {"prompt", "reprompt"} /\ hands[i].split) =>
           Offered \cap {"Double", "Split"} = {}
    /\ OriginalHands(hands) = num_hands
    /\ Len(hands) <= 2 * num_hands

\* a half of a split pair holds two equal cards again and a bet the bankroll
\* covers, and is asked: Hit or Stay
C27_Witness ==
    /\ pc = "reprompt" /\ hands[i].split
    /\ Len(hands[i].cards) = 2
    /\ Number(hands[i].cards[1]) = Number(hands[i].cards[2])
    /\ total_money >= hands[i].bet
    /\ Len(hands) = 2 * num_hands

\* C29: the script Blackjack.py and the module blackjack.py make the same
\* Double step: for any number of hands and any bets, hand by hand, Double
\* takes the hand's own bet from the bankroll and doubles the hand's recorded
\* bet, so both engines hold the same bankroll and the same bets.
C29_SameDouble ==
    pc = "double" =>
        /\ legacy.total_money = total_money
        /\ \A k \in DOMAIN hands : legacy.hands[k].bet = hands[k].bet
====
